---- MODULE Spec2Model ----
(***************************************************************************)
(* Cart / order workflow of the Casio storefront: CartService,             *)
(* OrderService and ProductService.update_stock over the tables products,  *)
(* cart_items, orders and order_items.                                     *)
(*                                                                         *)
(* A table is the sequence of its rows in insertion (rowid) order; a       *)
(* query's .first() is the first matching row and .all() the matching      *)
(* subsequence.  An Order's id is its index in `orders` (rows are never    *)
(* deleted).  Money is held in integer cents.  Every service call opens a  *)
(* session, and changes reach the tables only at session.commit(): a       *)
(* return without commit, or session.rollback(), leaves the tables as they *)
(* were.                                                                   *)
(***************************************************************************)
EXTENDS Integers, Sequences, FiniteSets, TLC

VARIABLES
    stock,    \* products.stock_quantity, per product
    active,   \* products.is_active, per product
    price,    \* products.price in cents, per product
    cart,     \* table cart_items: Seq of [user_id, product_id, quantity]
    orders,   \* table orders (+ order_items): Seq of order records
    ckpt,     \* per user: where a running create_order_from_cart stands
    cksum,    \* per user: the cart summary that call has read
    cktx,     \* per user: what the order transaction of that call holds unwritten
    adding,   \* per session: what an add_to_cart under way has read so far
    users,    \* table users: Seq of user records; a User's id is its index
    open,     \* the storage sessions that are open: <<function, caller>>
    last      \* the last service call and what it returned

vars == <<stock, active, price, cart, orders, ckpt, cksum, cktx, adding, users, open, last>>

----------------------------------------------------------------------------
(* Bounds of the model *)

MaxStock == 2        \* stock_quantity is kept within 0..MaxStock by guards
InitStock == 1       \* every product's stock after the sample data is loaded
MaxQty == 1          \* largest quantity argument of a call
NegQty == 1          \* quantity arguments go down to -NegQty
MaxCartRows == 2     \* rows the cart_items table may hold
NumOrderNumbers == 2 \* distinct values _generate_order_number can yield
MaxTime == 1         \* datetime.now() yields a value of 1..MaxTime

Users == {"u1", "u2"}
Products == {"p1", "p2"}
NoUser == "none"     \* user_id=None: the optional user argument left out
ZeroUser == "zero"   \* user_id=0: an id given, of no stored user, and falsy
NoProduct == "none"
AbsentUser == "u9"       \* a user id that no users row has
AbsentProduct == "p9"    \* a product id that no products row has
QtyArgs == (0 - NegQty)..MaxQty
OrderNumbers == 1..NumOrderNumbers
Times == 1..MaxTime
StockChanges == (0 - MaxQty)..MaxQty
OrderIds == 1..(NumOrderNumbers + 1)   \* one id beyond any stored order
Callers == Users \cup {NoUser, ZeroUser}
Sessions == {"s1", "s2"}     \* the sessions of calls that run at the same time
StatusArgs == {"pending", "confirmed", "processing", "shipped", "delivered", "cancelled",
               "refunded", ""}   \* the enum and two strings outside it
RefArgs == {"", "ref1"}      \* no payment reference, or one
NullTime == 0        \* a NULL DateTime column

\* products.price in cents of two of the sample products
Price == [p \in Products |-> IF p = "p1" THEN 4900 ELSE 8900]

----------------------------------------------------------------------------
(* What a call returned *)

\* op: the operation; ok/msg: the result's success (valid) flag and message;
\* order: the order id the call was given or created (0: none);
\* issues: the issues list of validate_cart_for_checkout;
\* summary: the dictionary get_cart_summary returned (NoSummary for other calls);
\* items: the list get_cart_items returned; count: what get_cart_count returned
NoSummary ==
    [items |-> <<>>, total_items |-> 0, subtotal |-> 0, tax_amount |-> 0,
     shipping_amount |-> 0, total_amount |-> 0,
     free_shipping_eligible |-> FALSE, free_shipping_remaining |-> 0]

Ret(op, o, ok, msg) ==
    [op |-> op, order |-> o, ok |-> ok, msg |-> msg, issues |-> <<>>,
     summary |-> NoSummary, items |-> <<>>, count |-> 0, raised |-> "none"]

\* session = get_session()
OpenSession(o, s) == o \cup {s}

\* a finally block that does not close
CloseSessionSkipped(o, s) == o

\* finally: session.close()
CloseSession(o, s) == o \ {s}

\* a call that opens session s, runs its try block and closes s in finally
Scoped(o, s) == CloseSession(OpenSession(o, s), s)

\* calls that each open and close a session of their own, one after another
RECURSIVE ScopedAll(_, _)
ScopedAll(o, ss) == IF ss = <<>> THEN o ELSE ScopedAll(Scoped(o, Head(ss)), Tail(ss))

\* a call that opens session outer, makes the calls of inner inside its try
\* block and closes outer in finally
Nested(o, outer, inner) == CloseSession(ScopedAll(OpenSession(o, outer), inner), outer)

\* a handler that lets a NameError pass (it names the database errors only)
ExceptDatabaseErrorsOnly(exc) == exc # "NameError"

\* `except Exception as e:` catches every exception raised in the try block
ExceptException(exc) == TRUE

\* what the caller gets when exc is raised inside the try block of op, whose
\* handler rolls back and returns a failure with message msg; raised names the
\* exception that reaches the caller, "none" when none does
Caught(op, o, exc, msg) ==
    IF ExceptException(exc) THEN Ret(op, o, FALSE, msg)
    ELSE [Ret(op, o, FALSE, "") EXCEPT !.raised = exc]

\* session.query(CartItem).filter(CartItem.user_id == user_id).all()
CartRowsOf(c, u) == SelectSeq(c, LAMBDA r : r.user_id = u)

\* index of query(CartItem).filter(user_id, product_id).first(); 0 when None
FirstRow(c, u, p) ==
    LET hits == {i \in 1..Len(c) : c[i].user_id = u /\ c[i].product_id = p}
    IN  IF hits = {} THEN 0 ELSE CHOOSE i \in hits : \A j \in hits : i <= j

\* the table without row i (session.delete)
RemoveAt(c, i) == [j \in 1..(Len(c) - 1) |-> IF j < i THEN c[j] ELSE c[j + 1]]

----------------------------------------------------------------------------
(* CartService *)

\* add_to_cart line 29: the request alone exceeds the stock
RequestExceedsStock(available, quantity) == available < quantity

\* the new quantity overwrites the row's instead of adding to it
MergedQuantityOverwrite(existing, quantity) == quantity

\* add_to_cart line 39: merge by sum
MergedQuantity(existing, quantity) == existing + quantity

\* the merged quantity is never checked
MergedExceedsStockUnchecked(available, new_quantity) == FALSE

\* add_to_cart line 40: the merged quantity exceeds the stock
MergedExceedsStock(available, new_quantity) == available < new_quantity

add_to_cart(u, p, q) ==
    LET i == FirstRow(cart, u, p) IN
    /\ UNCHANGED <<stock, active, price, cktx, adding, users, orders, ckpt, cksum>>
    /\ open' = Scoped(open, <<"add_to_cart", u>>)
    /\ IF p \notin Products \/ ~active[p]
       THEN /\ last' = Ret("add", 0, FALSE, "Product not found")
            /\ UNCHANGED cart
       ELSE IF RequestExceedsStock(stock[p], q)
       THEN /\ last' = Ret("add", 0, FALSE, "Insufficient stock")
            /\ UNCHANGED cart
       ELSE IF i # 0
       THEN LET new_quantity == MergedQuantity(cart[i].quantity, q) IN
            IF MergedExceedsStock(stock[p], new_quantity)
            THEN /\ last' = Ret("add", 0, FALSE, "Insufficient stock")
                 /\ UNCHANGED cart
            ELSE /\ new_quantity >= 0 - NegQty
                 /\ cart' = [cart EXCEPT ![i].quantity = new_quantity]
                 /\ last' = Ret("add", 0, TRUE, "Item added to cart")
       ELSE /\ Len(cart) < MaxCartRows
            /\ cart' = Append(cart, [user_id |-> u, product_id |-> p, quantity |-> q])
            /\ last' = Ret("add", 0, TRUE, "Item added to cart")

\* the table change and result of remove_from_cart, reported as operation op
RemoveEffect(op, u, p) ==
    LET i == FirstRow(cart, u, p) IN
    IF i = 0
    THEN /\ last' = Ret(op, 0, FALSE, "Item not found in cart")
         /\ UNCHANGED cart
    ELSE /\ cart' = RemoveAt(cart, i)
         /\ last' = Ret(op, 0, TRUE, "Item removed from cart")

remove_from_cart(u, p) ==
    /\ UNCHANGED <<stock, active, price, cktx, adding, users, orders, ckpt, cksum>>
    /\ open' = Scoped(open, <<"remove_from_cart", u>>)
    /\ RemoveEffect("remove", u, p)

\* the new quantity checked as add_to_cart checks it: the row's quantity plus
\* the new one against the stock
update_cart_item_quantity_as_increment(u, p, q) ==
    LET i == FirstRow(cart, u, p) IN
    /\ UNCHANGED <<stock, active, price, cktx, adding, users, orders, ckpt, cksum>>
    /\ open' = IF q <= 0
               THEN Nested(open, <<"update_cart_item_quantity", u>>,
                           << <<"remove_from_cart", u>> >>)
               ELSE Scoped(open, <<"update_cart_item_quantity", u>>)
    /\ IF q <= 0
       THEN RemoveEffect("setQuantity", u, p)
       ELSE IF i = 0
       THEN /\ last' = Ret("setQuantity", 0, FALSE, "Item not found in cart")
            /\ UNCHANGED cart
       ELSE IF stock[p] < cart[i].quantity + q
       THEN /\ last' = Ret("setQuantity", 0, FALSE, "Insufficient stock")
            /\ UNCHANGED cart
       ELSE /\ cart' = [cart EXCEPT ![i].quantity = q]
            /\ last' = Ret("setQuantity", 0, TRUE, "Cart updated")

update_cart_item_quantity(u, p, q) ==
    LET i == FirstRow(cart, u, p) IN
    /\ UNCHANGED <<stock, active, price, cktx, adding, users, orders, ckpt, cksum>>
    /\ open' = IF q <= 0
               THEN Nested(open, <<"update_cart_item_quantity", u>>,
                           << <<"remove_from_cart", u>> >>)
               ELSE Scoped(open, <<"update_cart_item_quantity", u>>)
    /\ IF q <= 0
       THEN RemoveEffect("setQuantity", u, p)
       ELSE IF i = 0
       THEN /\ last' = Ret("setQuantity", 0, FALSE, "Item not found in cart")
            /\ UNCHANGED cart
       ELSE IF stock[p] < q
       THEN /\ last' = Ret("setQuantity", 0, FALSE, "Insufficient stock")
            /\ UNCHANGED cart
       ELSE /\ cart' = [cart EXCEPT ![i].quantity = q]
            /\ last' = Ret("setQuantity", 0, TRUE, "Cart updated")

\* add_to_cart as another call may cut into it.  Its queries run before the
\* session writes anything, so no lock is held between them and the commit:
\* add_begin is lines 21-42 (what the session read and decided), add_commit
\* lines 43-54 (the UPDATE of the row read, or the INSERT, and the commit).
NotAdding == [state |-> "idle", user_id |-> NoUser, product_id |-> NoProduct,
              quantity |-> 0, row |-> 0]

add_begin(s, u, p, q) ==
    LET i == FirstRow(cart, u, p) IN
    /\ adding[s].state = "idle"
    /\ UNCHANGED <<stock, active, price, cktx, users, cart, orders, ckpt, cksum>>
    /\ IF p \notin Products \/ ~active[p]
       THEN /\ last' = Ret("add", 0, FALSE, "Product not found")
            /\ open' = Scoped(open, <<"add_to_cart", s>>)
            /\ UNCHANGED adding
       ELSE IF RequestExceedsStock(stock[p], q)
       THEN /\ last' = Ret("add", 0, FALSE, "Insufficient stock")
            /\ open' = Scoped(open, <<"add_to_cart", s>>)
            /\ UNCHANGED adding
       ELSE IF i # 0 /\ MergedExceedsStock(stock[p], MergedQuantity(cart[i].quantity, q))
       THEN /\ last' = Ret("add", 0, FALSE, "Insufficient stock")
            /\ open' = Scoped(open, <<"add_to_cart", s>>)
            /\ UNCHANGED adding
       ELSE /\ adding' = [adding EXCEPT ![s] =
                 [state |-> "read", user_id |-> u, product_id |-> p,
                  quantity |-> IF i # 0 THEN MergedQuantity(cart[i].quantity, q) ELSE q,
                  row |-> i]]
            /\ open' = OpenSession(open, <<"add_to_cart", s>>)
            /\ UNCHANGED last

add_commit(s) ==
    LET a == adding[s] IN
    /\ a.state = "read"
    /\ UNCHANGED <<stock, active, price, cktx, users, orders, ckpt, cksum>>
    /\ open' = CloseSession(open, <<"add_to_cart", s>>)
    /\ adding' = [adding EXCEPT ![s] = NotAdding]
    /\ IF a.row = 0
       THEN /\ Len(cart) < MaxCartRows
            /\ cart' = Append(cart, [user_id |-> a.user_id, product_id |-> a.product_id,
                                     quantity |-> a.quantity])
            /\ last' = Ret("add", 0, TRUE, "Item added to cart")
       ELSE IF a.row > Len(cart) \/ cart[a.row].user_id # a.user_id
                                \/ cart[a.row].product_id # a.product_id
       THEN \* the row read is gone: the UPDATE matches no row and the commit fails
            /\ last' = Caught("add", 0, "StaleDataError", "Error adding to cart")
            /\ UNCHANGED cart
       ELSE /\ cart' = [cart EXCEPT ![a.row].quantity = a.quantity]
            /\ last' = Ret("add", 0, TRUE, "Item added to cart")

clear_cart(u) ==
    /\ UNCHANGED <<stock, active, price, cktx, adding, users, orders, ckpt, cksum>>
    /\ open' = Scoped(open, <<"clear_cart", u>>)
    /\ cart' = SelectSeq(cart, LAMBDA r : r.user_id # u)
    /\ last' = Ret("clear", 0, TRUE, "Cart cleared")


\* one issue string of validate_cart_for_checkout
Issue(kind, p, available, requested) ==
    [kind |-> kind, product_id |-> p, available |-> available, requested |-> requested]

\* the issues without the is_active test of line 203
RECURSIVE CartIssuesStockOnly(_, _, _)
CartIssuesStockOnly(rows, s, a) ==
    IF rows = <<>> THEN <<>>
    ELSE LET item == Head(rows)
             p == item.product_id
             rest == CartIssuesStockOnly(Tail(rows), s, a)
         IN  IF s[p] < item.quantity
             THEN <<Issue("insufficient", p, s[p], item.quantity)>> \o rest
             ELSE rest

\* the issues cut short at the first offending row
RECURSIVE CartIssuesFirstOnly(_, _, _)
CartIssuesFirstOnly(rows, s, a) ==
    IF rows = <<>> THEN <<>>
    ELSE LET item == Head(rows)
             p == item.product_id
         IN  IF ~a[p]
             THEN <<Issue("unavailable", p, 0, 0)>>
             ELSE IF s[p] < item.quantity
             THEN <<Issue("insufficient", p, s[p], item.quantity)>>
             ELSE CartIssuesFirstOnly(Tail(rows), s, a)

\* validate_cart_for_checkout lines 201-206: the issues of the rows, in row order
RECURSIVE CartIssues(_, _, _)
CartIssues(rows, s, a) ==
    IF rows = <<>> THEN <<>>
    ELSE LET item == Head(rows)
             p == item.product_id
             rest == CartIssues(Tail(rows), s, a)
         IN  IF ~a[p]
             THEN <<Issue("unavailable", p, 0, 0)>> \o rest
             ELSE IF s[p] < item.quantity
             THEN <<Issue("insufficient", p, s[p], item.quantity)>> \o rest
             ELSE rest

\* what validate_cart_for_checkout(user_id) returns on tables c, s, a
validate_cart_for_checkout(c, s, a, u) ==
    LET cart_items == CartRowsOf(c, u)
        issues == CartIssues(cart_items, s, a)
    IN  IF cart_items = <<>>
        THEN [valid |-> FALSE, message |-> "Cart is empty", issues |-> <<>>]
        ELSE IF issues # <<>>
        THEN [valid |-> FALSE, message |-> "Cart validation failed", issues |-> issues]
        ELSE [valid |-> TRUE, message |-> "Cart is valid for checkout", issues |-> <<>>]

\* the read-only call itself
validate_call(u) ==
    LET v == validate_cart_for_checkout(cart, stock, active, u) IN
    /\ UNCHANGED <<stock, active, price, cktx, adding, users, cart, orders, ckpt, cksum>>
    /\ open' = Scoped(open, <<"validate_cart_for_checkout", u>>)
    /\ last' = [Ret("validate", 0, v.valid, v.message)
                   EXCEPT !.issues = v.issues]

\* every row of the user listed, whatever its product's is_active
get_cart_items_all(c, a, u) ==
    LET rows == CartRowsOf(c, u)
    IN  [i \in 1..Len(rows) |->
            [product_id |-> rows[i].product_id, quantity |-> rows[i].quantity,
             subtotal |-> price[rows[i].product_id] * rows[i].quantity]]

\* get_cart_items: the user's rows whose product is active, with the line subtotal
get_cart_items(c, a, u) ==
    LET rows == SelectSeq(CartRowsOf(c, u), LAMBDA r : a[r.product_id])
    IN  [i \in 1..Len(rows) |->
            [product_id |-> rows[i].product_id, quantity |-> rows[i].quantity,
             subtotal |-> price[rows[i].product_id] * rows[i].quantity]]

\* the read-only call itself
items_call(u) ==
    /\ UNCHANGED <<stock, active, price, cktx, adding, users, cart, orders, ckpt, cksum>>
    /\ open' = Scoped(open, <<"get_cart_items", u>>)
    /\ last' = [Ret("list", 0, TRUE, "") EXCEPT !.items = get_cart_items(cart, active, u)]

RECURSIVE SumField(_, _)
SumField(items, f) ==
    IF items = <<>> THEN 0 ELSE Head(items)[f] + SumField(Tail(items), f)

\* round(n/d) to the nearest integer, ties to even (Python's round on cents)
RoundDiv(n, d) ==
    LET q == n \div d
        r == n % d
    IN  IF 2 * r < d THEN q
        ELSE IF 2 * r > d THEN q + 1
        ELSE IF q % 2 = 0 THEN q ELSE q + 1

TaxPercent == 8
FreeShippingFrom == 10000
ShippingFee == 999

\* free shipping only above the threshold, not at it
ShipsFreeAboveOnly(subtotal) == subtotal > FreeShippingFrom

\* get_cart_summary line 152: subtotal >= 100
ShipsFree(subtotal) == subtotal >= FreeShippingFrom

\* get_cart_summary, amounts in cents.  tax_amount and total_amount are kept
\* unrounded (in hundredths of a cent) until the dictionary is built, where
\* each is rounded to the cent on its own (lines 160-162)
get_cart_summary(c, a, u) ==
    LET cart_items == get_cart_items(c, a, u)
        subtotal == SumField(cart_items, "subtotal")
        tax_x100 == subtotal * TaxPercent
        shipping_amount == IF ShipsFree(subtotal) THEN 0 ELSE ShippingFee
        total_x100 == subtotal * 100 + tax_x100 + shipping_amount * 100
    IN  [items |-> cart_items,
         total_items |-> SumField(cart_items, "quantity"),
         subtotal |-> subtotal,
         tax_amount |-> RoundDiv(tax_x100, 100),
         shipping_amount |-> shipping_amount,
         total_amount |-> RoundDiv(total_x100, 100),
         free_shipping_eligible |-> subtotal >= FreeShippingFrom,
         free_shipping_remaining |->
             IF subtotal < FreeShippingFrom
             THEN (IF FreeShippingFrom - subtotal > 0 THEN FreeShippingFrom - subtotal ELSE 0)
             ELSE 0]

\* the read-only call itself
summary_call(u) ==
    /\ UNCHANGED <<stock, active, price, cktx, adding, users, cart, orders, ckpt, cksum>>
    /\ open' = Scoped(open, <<"get_cart_items", u>>)
    /\ last' = [Ret("summary", 0, TRUE, "")
                   EXCEPT !.summary = get_cart_summary(cart, active, u)]

\* get_cart_count: the quantities of all rows of the user (lines 185-186)
get_cart_count(c, u) ==
    LET rows == CartRowsOf(c, u)
    IN  SumField([i \in 1..Len(rows) |-> [quantity |-> rows[i].quantity]], "quantity")

count_call(u) ==
    /\ UNCHANGED <<stock, active, price, cktx, adding, users, cart, orders, ckpt, cksum>>
    /\ open' = Scoped(open, <<"get_cart_count", u>>)
    /\ last' = [Ret("count", 0, TRUE, "") EXCEPT !.count = get_cart_count(cart, u)]

\* the amounts create_order_from_cart copies from the summary
Amounts(s) ==
    [total_amount |-> s.total_amount, tax_amount |-> s.tax_amount,
     shipping_amount |-> s.shipping_amount]

NoAmounts == [total_amount |-> 0, tax_amount |-> 0, shipping_amount |-> 0]

----------------------------------------------------------------------------
(* ProductService.update_stock, and the catalogue's is_active flag *)

\* the guard off by one: a change that leaves -1 passes
NewQuantityRejectedOffByOne(new_quantity) == new_quantity < 0 - 1

\* update_stock line 297
NewQuantityRejected(new_quantity) == new_quantity < 0

update_stock(p, quantity_change) ==
    LET new_quantity == stock[p] + quantity_change IN
    /\ UNCHANGED <<active, price, cktx, adding, users, cart, orders, ckpt, cksum>>
    /\ open' = Scoped(open, <<"update_stock", p>>)
    /\ IF NewQuantityRejected(new_quantity)
       THEN /\ last' = Ret("update_stock", 0, FALSE, "")
            /\ UNCHANGED stock
       ELSE /\ new_quantity <= MaxStock
            /\ stock' = [stock EXCEPT ![p] = new_quantity]
            /\ last' = Ret("update_stock", 0, TRUE, "")

\* Product.is_active is a soft-delete flag the catalogue administration sets;
\* the services only read it
set_active(p, b) ==
    /\ active[p] # b
    /\ active' = [active EXCEPT ![p] = b]
    /\ last' = Ret("set_active", 0, TRUE, "")
    /\ UNCHANGED <<stock, price, cktx, adding, users, cart, orders, ckpt, cksum, open>>

----------------------------------------------------------------------------
(* OrderService *)

\* the payment status "refunded" taken for an order status
valid_statuses_with_refunded ==
    {"pending", "confirmed", "processing", "shipped", "delivered", "cancelled", "refunded"}

\* "delivered" missing from the list: no order can be moved to it
valid_statuses_without_delivered ==
    {"pending", "confirmed", "processing", "shipped", "cancelled"}

\* update_order_status line 198
valid_statuses == {"pending", "confirmed", "processing", "shipped", "delivered", "cancelled"}
payment_statuses == {"pending", "paid", "failed", "refunded"}
NoRef == ""          \* payment_reference None (or empty): falsy

\* Order(...) of create_order_from_cart lines 41-59, inserted at time t
NewOrder(u, n, amounts, products, t) ==
    [order_number |-> n, user_id |-> u,
     total_amount |-> amounts.total_amount, tax_amount |-> amounts.tax_amount,
     shipping_amount |-> amounts.shipping_amount, discount_amount |-> 0,
     status |-> "pending", payment_status |-> "pending", payment_reference |-> NoRef,
     products |-> products,
     updated_at |-> t, shipped_at |-> NullTime, delivered_at |-> NullTime]

\* line 71: the final stock check of one cart line
LineShort(available, quantity) == available < quantity

\* one unit taken per line, whatever the line's quantity
DecrementedStockByOne(available, quantity) == available - 1

\* line 76
DecrementedStock(available, quantity) == available - quantity

\* lines 67-80 on the session's objects: s is the stock the session holds,
\* attached the products appended to order.products so far
RECURSIVE OrderLoop(_, _, _)
OrderLoop(rows, s, attached) ==
    IF rows = <<>>
    THEN [failed |-> FALSE, product |-> NoProduct, stock |-> s, products |-> attached]
    ELSE LET cart_item == Head(rows)
             p == cart_item.product_id
         IN  IF LineShort(s[p], cart_item.quantity)
             THEN [failed |-> TRUE, product |-> p, stock |-> s, products |-> attached]
             ELSE OrderLoop(Tail(rows),
                            [s EXCEPT ![p] = DecrementedStock(s[p], cart_item.quantity)],
                            attached \cup {p})

\* a rollback that is lost: the session's pending value reaches the table
RolledBackLost(committed, pending) == pending

\* session.rollback(): the tables keep the committed value, not the session's
RolledBack(committed, pending) == committed

InsufficientFor == [p \in Products |-> "Insufficient stock for " \o p]

\* the unique constraint on order_number not enforced
OrderNumberTakenIgnored(os, n) == FALSE

\* Order.order_number is unique (database.py line 128): the INSERT of
\* session.flush() (line 62) fails when a stored order has the number
OrderNumberTaken(os, n) == \E i \in 1..Len(os) : os[i].order_number = n

\* lines 39-97: the order transaction, with the amounts read before it,
\* the generated order number n and the time of the insert t
OrderTransaction(u, amounts, n, t) ==
    LET rows == CartRowsOf(cart, u)
        r == OrderLoop(rows, stock, {})
        order == NewOrder(u, n, amounts, r.products, t)
    IN  IF OrderNumberTaken(orders, n)
        THEN \* the IntegrityError is caught at line 99 and rolled back
             /\ last' = Caught("createFromCart", 0, "IntegrityError", "Order creation failed")
             /\ UNCHANGED <<stock, cart, orders>>
        ELSE IF r.failed
        THEN /\ last' = Ret("createFromCart", 0, FALSE, InsufficientFor[r.product])
             /\ stock' = RolledBack(stock, r.stock)
             /\ orders' = RolledBack(orders, Append(orders, order))
             /\ UNCHANGED cart
        ELSE /\ \A p \in Products : r.stock[p] <= MaxStock
             /\ stock' = r.stock
             /\ orders' = Append(orders, order)
             /\ cart' = SelectSeq(cart, LAMBDA row : row.user_id # u)
             /\ last' = Ret("createFromCart", Len(orders) + 1, TRUE,
                            "Order created successfully")

\* create_order_from_cart run without another call in between
create_order_from_cart(u, n, t) ==
    LET v == validate_cart_for_checkout(cart, stock, active, u)
        cart_summary == get_cart_summary(cart, active, u)
    IN  /\ ckpt[u] = "idle"
        /\ UNCHANGED <<active, price, cktx, adding, users, ckpt, cksum>>
        /\ open' = Nested(open, <<"create_order_from_cart", u>>,
                         IF v.valid
                         THEN << <<"validate_cart_for_checkout", u>>, <<"get_cart_items", u>> >>
                         ELSE << <<"validate_cart_for_checkout", u>> >>)
        /\ IF ~v.valid
           THEN /\ last' = Ret("createFromCart", 0, FALSE, v.message)
                /\ UNCHANGED <<stock, cart, orders>>
           ELSE IF cart_summary.items = <<>>
           THEN /\ last' = Ret("createFromCart", 0, FALSE, "Cart is empty")
                /\ UNCHANGED <<stock, cart, orders>>
           ELSE OrderTransaction(u, Amounts(cart_summary), n, t)

\* create_order_from_cart as another call may cut into it: its three sessions
\* (validate_cart_for_checkout, get_cart_items, the order transaction) each see
\* the tables as they are when they run.  The order transaction is one step:
\* its INSERT at session.flush() takes the database's write lock before the
\* cart rows and products are read, and holds it to the commit or rollback.
co_validate(u) ==
    LET v == validate_cart_for_checkout(cart, stock, active, u) IN
    /\ ckpt[u] = "idle"
    /\ UNCHANGED <<stock, active, price, cktx, adding, users, cart, orders, cksum>>
    /\ IF ~v.valid
       THEN /\ last' = Ret("createFromCart", 0, FALSE, v.message)
            /\ open' = Nested(open, <<"create_order_from_cart", u>>,
                              << <<"validate_cart_for_checkout", u>> >>)
            /\ UNCHANGED ckpt
       ELSE /\ ckpt' = [ckpt EXCEPT ![u] = "validated"]
            /\ open' = ScopedAll(OpenSession(open, <<"create_order_from_cart", u>>),
                                 << <<"validate_cart_for_checkout", u>> >>)
            /\ UNCHANGED last

co_summary(u) ==
    LET cart_summary == get_cart_summary(cart, active, u) IN
    /\ ckpt[u] = "validated"
    /\ UNCHANGED <<stock, active, price, cktx, adding, users, cart, orders>>
    /\ IF cart_summary.items = <<>>
       THEN /\ last' = Ret("createFromCart", 0, FALSE, "Cart is empty")
            /\ open' = CloseSession(Scoped(open, <<"get_cart_items", u>>),
                                    <<"create_order_from_cart", u>>)
            /\ ckpt' = [ckpt EXCEPT ![u] = "idle"]
            /\ UNCHANGED cksum
       ELSE /\ ckpt' = [ckpt EXCEPT ![u] = "summarised"]
            /\ open' = Scoped(open, <<"get_cart_items", u>>)
            /\ cksum' = [cksum EXCEPT ![u] = Amounts(cart_summary)]
            /\ UNCHANGED last

co_transaction(u, n, t) ==
    /\ ckpt[u] = "summarised"
    /\ UNCHANGED <<active, price, cktx, adding, users>>
    /\ open' = CloseSession(open, <<"create_order_from_cart", u>>)
    /\ OrderTransaction(u, cksum[u], n, t)
    /\ ckpt' = [ckpt EXCEPT ![u] = "idle"]
    /\ cksum' = [cksum EXCEPT ![u] = NoAmounts]

\* The order transaction as transactions of other calls may cut into it, on a
\* database that lets writers run side by side (the url is a setting; the
\* default SQLite file database lets one writer in at a time, which gives the
\* runs of co_transaction).  The session never flushes its products before
\* the commit (autoflush is off), so the loop works on the values it read and
\* the commit sends them as they are.
NoTransaction ==
    [order_number |-> 0, time |-> 0, amounts |-> NoAmounts, seen |-> <<>>,
     pending |-> <<>>, products |-> {}]

\* the UPDATE sent as a decrement of the row's current value
WrittenAsDecrement(current, seen, pending) == current - (seen - pending)

\* the UPDATE of the commit: SET stock_quantity = the session's value
Written(current, seen, pending) == pending

\* lines 40-62: the order is inserted, unseen by others until the commit
co_flush(u, n, t) ==
    /\ ckpt[u] = "summarised"
    /\ \A v \in Users : cktx[v].order_number # n
    /\ UNCHANGED <<stock, active, price, adding, users, cart, orders>>
    /\ IF OrderNumberTaken(orders, n)
       THEN /\ last' = Caught("createFromCart", 0, "IntegrityError", "Order creation failed")
            /\ ckpt' = [ckpt EXCEPT ![u] = "idle"]
            /\ cksum' = [cksum EXCEPT ![u] = NoAmounts]
            /\ open' = CloseSession(open, <<"create_order_from_cart", u>>)
            /\ UNCHANGED cktx
       ELSE /\ ckpt' = [ckpt EXCEPT ![u] = "flushed"]
            /\ cktx' = [cktx EXCEPT ![u] =
                          [NoTransaction EXCEPT !.order_number = n, !.time = t,
                                                !.amounts = cksum[u]]]
            /\ UNCHANGED <<cksum, last, open>>

\* lines 65-83: the cart rows and their products are read, checked and
\* decremented in the session
co_loop(u) ==
    LET r == OrderLoop(CartRowsOf(cart, u), stock, {}) IN
    /\ ckpt[u] = "flushed"
    /\ UNCHANGED <<stock, active, price, adding, users, cart, orders>>
    /\ IF r.failed
       THEN /\ last' = Ret("createFromCart", 0, FALSE, InsufficientFor[r.product])
            /\ ckpt' = [ckpt EXCEPT ![u] = "idle"]
            /\ cksum' = [cksum EXCEPT ![u] = NoAmounts]
            /\ cktx' = [cktx EXCEPT ![u] = NoTransaction]
            /\ open' = CloseSession(open, <<"create_order_from_cart", u>>)
       ELSE /\ ckpt' = [ckpt EXCEPT ![u] = "looped"]
            /\ cktx' = [cktx EXCEPT ![u] =
                          [@ EXCEPT !.seen = stock, !.pending = r.stock,
                                    !.products = r.products]]
            /\ UNCHANGED <<cksum, last, open>>

\* line 85: the commit writes the order, the products' values and the delete
co_commit(u) ==
    LET x == cktx[u]
        order == NewOrder(u, x.order_number, x.amounts, x.products, x.time)
    IN  /\ ckpt[u] = "looped"
        /\ UNCHANGED <<active, price, adding, users>>
        /\ open' = CloseSession(open, <<"create_order_from_cart", u>>)
        /\ stock' = [p \in Products |->
                        IF p \in x.products
                        THEN Written(stock[p], x.seen[p], x.pending[p])
                        ELSE stock[p]]
        /\ orders' = Append(orders, order)
        /\ cart' = SelectSeq(cart, LAMBDA row : row.user_id # u)
        /\ last' = Ret("createFromCart", Len(orders) + 1, TRUE, "Order created successfully")
        /\ ckpt' = [ckpt EXCEPT ![u] = "idle"]
        /\ cksum' = [cksum EXCEPT ![u] = NoAmounts]
        /\ cktx' = [cktx EXCEPT ![u] = NoTransaction]

\* an update to "cancelled" that puts the order's stock back as cancel_order does
update_order_status_restoring(o, status, payment_reference, t1, t2) ==
    /\ UNCHANGED <<active, price, cktx, adding, users, cart, ckpt, cksum>>
    /\ open' = Scoped(open, <<"update_order_status", "-">>)
    /\ IF o \notin 1..Len(orders)
       THEN /\ last' = Ret("updateStatus", o, FALSE, "Order not found")
            /\ UNCHANGED <<stock, orders>>
       ELSE IF status \notin valid_statuses
       THEN /\ last' = Ret("updateStatus", o, FALSE, "Invalid status")
            /\ UNCHANGED <<stock, orders>>
       ELSE /\ stock' = [p \in Products |->
                            IF status = "cancelled" /\ p \in orders[o].products
                               /\ stock[p] < MaxStock
                            THEN stock[p] + 1 ELSE stock[p]]
            /\ orders' = [orders EXCEPT ![o] =
                 [@ EXCEPT !.status = status,
                           !.updated_at = t1,
                           !.payment_reference =
                               IF payment_reference # NoRef THEN payment_reference ELSE @,
                           !.payment_status =
                               IF payment_reference # NoRef THEN "paid" ELSE @,
                           !.shipped_at = IF status = "shipped" THEN t2 ELSE @,
                           !.delivered_at = IF status = "delivered" THEN t2 ELSE @]]
            /\ last' = Ret("updateStatus", o, TRUE, "Order status updated to " \o status)

\* update_order_status
update_order_status(o, status, payment_reference, t1, t2) ==
    /\ UNCHANGED <<stock, active, price, cktx, adding, users, cart, ckpt, cksum>>
    /\ open' = Scoped(open, <<"update_order_status", "-">>)
    /\ IF o \notin 1..Len(orders)
       THEN /\ last' = Ret("updateStatus", o, FALSE, "Order not found")
            /\ UNCHANGED orders
       ELSE IF status \notin valid_statuses
       THEN /\ last' = Ret("updateStatus", o, FALSE, "Invalid status")
            /\ UNCHANGED orders
       ELSE /\ orders' = [orders EXCEPT ![o] =
                 [@ EXCEPT !.status = status,
                           !.updated_at = t1,
                           !.payment_reference =
                               IF payment_reference # NoRef THEN payment_reference ELSE @,
                           !.payment_status =
                               IF payment_reference # NoRef THEN "paid" ELSE @,
                           !.shipped_at = IF status = "shipped" THEN t2 ELSE @,
                           !.delivered_at = IF status = "delivered" THEN t2 ELSE @]]
            /\ last' = Ret("updateStatus", o, TRUE, "Order status updated to " \o status)

\* `if user_id:` of get_order_by_id line 140 and cancel_order line 302
Truthy(user_id) == user_id \notin {NoUser, ZeroUser}

\* the order the query of get_order_by_id / cancel_order finds: o, or 0 (None)
FoundOrder(o, user_id) ==
    IF o \notin 1..Len(orders) THEN 0
    ELSE IF Truthy(user_id) /\ orders[o].user_id # user_id THEN 0
    ELSE o

\* get_order_by_id: ok tells whether an order (not None) was returned
get_order_by_id(o, user_id) ==
    /\ UNCHANGED <<stock, active, price, cktx, adding, users, cart, orders, ckpt, cksum>>
    /\ open' = Scoped(open, <<"get_order_by_id", user_id>>)
    /\ last' = Ret("getOrderById", FoundOrder(o, user_id), FoundOrder(o, user_id) # 0, "")

\* "cancelled" missing from the list
NotCancellableButCancelled(status) == status \in {"shipped", "delivered"}

\* cancel_order line 308
NotCancellable(status) == status \in {"shipped", "delivered", "cancelled"}

\* the loop of lines 312-313 left out: nothing is put back
RestoredStockNone(available) == available

\* cancel_order line 313
RestoredStock(available) == available + 1

\* a cancel that deletes the order's row after the stock is put back
cancel_order_deleting(o, caller, t) ==
    /\ UNCHANGED <<active, price, cktx, adding, users, cart, ckpt, cksum>>
    /\ open' = Scoped(open, <<"cancel_order", caller>>)
    /\ IF FoundOrder(o, caller) = 0
       THEN /\ last' = Ret("cancel", o, FALSE, "Order not found")
            /\ UNCHANGED <<stock, orders>>
       ELSE IF NotCancellable(orders[o].status)
       THEN /\ last' = Ret("cancel", o, FALSE, "Order cannot be cancelled")
            /\ UNCHANGED <<stock, orders>>
       ELSE /\ \A p \in orders[o].products : RestoredStock(stock[p]) <= MaxStock
            /\ stock' = [p \in Products |->
                            IF p \in orders[o].products THEN RestoredStock(stock[p])
                            ELSE stock[p]]
            /\ orders' = RemoveAt(orders, o)
            /\ last' = Ret("cancel", o, TRUE, "Order cancelled successfully")

cancel_order(o, caller, t) ==
    /\ UNCHANGED <<active, price, cktx, adding, users, cart, ckpt, cksum>>
    /\ open' = Scoped(open, <<"cancel_order", caller>>)
    /\ IF FoundOrder(o, caller) = 0
       THEN /\ last' = Ret("cancel", o, FALSE, "Order not found")
            /\ UNCHANGED <<stock, orders>>
       ELSE IF NotCancellable(orders[o].status)
       THEN /\ last' = Ret("cancel", o, FALSE, "Order cannot be cancelled")
            /\ UNCHANGED <<stock, orders>>
       ELSE /\ \A p \in orders[o].products : RestoredStock(stock[p]) <= MaxStock
            /\ stock' = [p \in Products |->
                            IF p \in orders[o].products THEN RestoredStock(stock[p])
                            ELSE stock[p]]
            /\ orders' = [orders EXCEPT ![o] =
                            [@ EXCEPT !.status = "cancelled", !.updated_at = t]]
            /\ last' = Ret("cancel", o, TRUE, "Order cancelled successfully")

----------------------------------------------------------------------------
(* AuthService *)

UsernameArgs == {"admin", "alice"}
EmailArgs == {"admin@casio-watches.com", "alice@x.com", "bob@x.com"}
NoEmail == ""        \* email None (or empty): falsy
NameArgs == {"Administrator", "Alice"}
NoName == "none"     \* full_name None
PasswordArgs == {"admin123", "pw1", "pw2"}
Salts == {"salt1"}   \* what secrets.token_hex(16) yields
UserIds == 1..2      \* one id beyond any stored user

\* _hash_password: the salt and the digest of password + salt
HashPassword(password, salt) == [salt |-> salt, digest |-> <<password, salt>>]

\* _verify_password
VerifyPassword(password, hashed_password) ==
    <<password, hashed_password.salt>> = hashed_password.digest

\* the names auth_service.py imports from sqlalchemy (line 8): and_, not or_
ImportedFromSqlalchemy == {"and_"}

\* a module-level name the function body uses can be looked up at the call
NameDefined(name) == name \in ImportedFromSqlalchemy

\* .first() of a query over users: the first of the row indexes that the
\* filter lets through; 0 when None
FirstUser(hits) ==
    IF hits = {} THEN 0 ELSE CHOOSE i \in hits : \A j \in hits : i <= j

\* the unique constraints of users.username and users.email (database.py
\* lines 37-38) let row r in as a new row
UserRowAdmitted(us, r) ==
    \A i \in 1..Len(us) : us[i].username # r.username /\ us[i].email # r.email

\* register_user.  The query of line 39 calls or_, which the module never
\* imports: the call raises NameError inside the try block.
register_user(username, email, password, salt, t) ==
    LET existing == FirstUser({i \in 1..Len(users) :
                        users[i].username = username \/ users[i].email = email})
        user == [username |-> username, email |-> email, full_name |-> NoName,
                 hashed_password |-> HashPassword(password, salt),
                 is_active |-> TRUE, is_admin |-> FALSE, updated_at |-> t]
    IN  /\ UNCHANGED <<stock, active, price, cktx, adding, cart, orders, ckpt, cksum>>
        /\ open' = Scoped(open, <<"register_user", "-">>)
        /\ IF ~NameDefined("or_")
           THEN /\ last' = Caught("register", 0, "NameError", "Registration failed")
                /\ UNCHANGED users
           ELSE IF existing # 0
           THEN /\ last' = Ret("register", 0, FALSE,
                               IF users[existing].username = username
                               THEN "Username already exists"
                               ELSE "Email already registered")
                /\ UNCHANGED users
           ELSE /\ users' = Append(users, user)
                /\ last' = Ret("register", 0, TRUE, "User registered successfully")

\* authenticate_user: its query (line 87) calls or_ as well; the handler of
\* line 112 returns the failure
authenticate_user(login, password, t) ==
    LET i == FirstUser({i \in 1..Len(users) :
                        /\ users[i].username = login \/ users[i].email = login
                        /\ users[i].is_active})
    IN  /\ UNCHANGED <<stock, active, price, cktx, adding, cart, orders, ckpt, cksum>>
        /\ open' = Scoped(open, <<"authenticate_user", "-">>)
        /\ IF ~NameDefined("or_")
           THEN /\ last' = Caught("authenticate", 0, "NameError", "Authentication failed")
                /\ UNCHANGED users
           ELSE IF i = 0 \/ ~VerifyPassword(password, users[i].hashed_password)
           THEN /\ last' = Ret("authenticate", 0, FALSE, "Invalid credentials")
                /\ UNCHANGED users
           ELSE /\ users' = [users EXCEPT ![i].updated_at = t]
                /\ last' = Ret("authenticate", 0, TRUE, "Authentication successful")

\* get_user_by_id: ok tells whether a user (not None) was returned
get_user_by_id(user_id) ==
    /\ UNCHANGED <<stock, active, price, cktx, adding, users, cart, orders, ckpt, cksum>>
    /\ open' = Scoped(open, <<"get_user_by_id", "-">>)
    /\ last' = Ret("getUserById", 0,
                   user_id \in 1..Len(users) /\ users[user_id].is_active, "")

update_user_profile(user_id, email, full_name, t) ==
    /\ UNCHANGED <<stock, active, price, cktx, adding, cart, orders, ckpt, cksum>>
    /\ open' = Scoped(open, <<"update_user_profile", "-">>)
    /\ IF user_id \notin 1..Len(users)
       THEN /\ last' = Ret("updateProfile", 0, FALSE, "User not found")
            /\ UNCHANGED users
       ELSE IF /\ email # NoEmail
               /\ email # users[user_id].email
               /\ \E i \in 1..Len(users) : i # user_id /\ users[i].email = email
       THEN /\ last' = Ret("updateProfile", 0, FALSE, "Email already in use")
            /\ UNCHANGED users
       ELSE /\ users' = [users EXCEPT ![user_id] =
                 [@ EXCEPT !.email = IF email # NoEmail THEN email ELSE @,
                           !.full_name = IF full_name # NoName THEN full_name ELSE @,
                           !.updated_at = t]]
            /\ last' = Ret("updateProfile", 0, TRUE, "Profile updated successfully")

change_password(user_id, current_password, new_password, salt, t) ==
    /\ UNCHANGED <<stock, active, price, cktx, adding, cart, orders, ckpt, cksum>>
    /\ open' = Scoped(open, <<"change_password", "-">>)
    /\ IF user_id \notin 1..Len(users)
       THEN /\ last' = Ret("changePassword", 0, FALSE, "User not found")
            /\ UNCHANGED users
       ELSE IF ~VerifyPassword(current_password, users[user_id].hashed_password)
       THEN /\ last' = Ret("changePassword", 0, FALSE, "Current password is incorrect")
            /\ UNCHANGED users
       ELSE /\ users' = [users EXCEPT ![user_id] =
                 [@ EXCEPT !.hashed_password = HashPassword(new_password, salt),
                           !.updated_at = t]]
            /\ last' = Ret("changePassword", 0, TRUE, "Password changed successfully")

\* the admin test skipped
AdminExistsNever(us) == FALSE

\* create_admin_user line 211: a user with is_admin true is stored
AdminExists(us) == \E i \in 1..Len(us) : us[i].is_admin

create_admin_user(salt, t) ==
    LET admin == [username |-> "admin", email |-> "admin@casio-watches.com",
                  full_name |-> "Administrator",
                  hashed_password |-> HashPassword("admin123", salt),
                  is_active |-> TRUE, is_admin |-> TRUE, updated_at |-> t]
    IN  /\ UNCHANGED <<stock, active, price, cktx, adding, cart, orders, ckpt, cksum>>
        /\ open' = Scoped(open, <<"create_admin_user", "-">>)
        /\ IF AdminExists(users)
           THEN /\ last' = Ret("createAdmin", 0, FALSE, "Admin user already exists")
                /\ UNCHANGED users
           ELSE IF ~UserRowAdmitted(users, admin)
           THEN /\ last' = Caught("createAdmin", 0, "IntegrityError", "Admin creation failed")
                /\ UNCHANGED users
           ELSE /\ users' = Append(users, admin)
                /\ last' = Ret("createAdmin", 0, TRUE, "Admin user created successfully")

----------------------------------------------------------------------------
Init ==
    /\ stock = [p \in Products |-> InitStock]
    /\ active = [p \in Products |-> TRUE]
    /\ price = Price
    /\ cart = <<>>
    /\ orders = <<>>
    /\ ckpt = [u \in Users |-> "idle"]
    /\ cksum = [u \in Users |-> NoAmounts]
    /\ cktx = [u \in Users |-> NoTransaction]
    /\ adding = [s \in Sessions |-> NotAdding]
    /\ users = <<>>
    /\ open = {}
    /\ last = Ret("init", 0, TRUE, "")

\* the tables after construction, with prices other than the sample's
PriceArgs == {1595, 4750, 5000, 6000}

InitPrices ==
    /\ stock = [p \in Products |-> InitStock]
    /\ active = [p \in Products |-> TRUE]
    /\ price \in [Products -> PriceArgs]
    /\ cart = <<>>
    /\ orders = <<>>
    /\ ckpt = [u \in Users |-> "idle"]
    /\ cksum = [u \in Users |-> NoAmounts]
    /\ cktx = [u \in Users |-> NoTransaction]
    /\ adding = [s \in Sessions |-> NotAdding]
    /\ users = <<>>
    /\ open = {}
    /\ last = Ret("init", 0, TRUE, "")

----------------------------------------------------------------------------
(* The calls a specification draws from.  US: the users who call; QS: the   *)
(* quantity arguments; NS: the order numbers the generator yields.         *)

Shopper == "u1"      \* where one user shops and the others only call

AddCall(US, QS) == \E u \in US, p \in Products, q \in QS : add_to_cart(u, p, q)
RemoveCall(US) == \E u \in US, p \in Products : remove_from_cart(u, p)
SetQuantityCall(US, QS) ==
    \E u \in US, p \in Products, q \in QS : update_cart_item_quantity(u, p, q)
ClearCall(US) == \E u \in US : clear_cart(u)
ValidateCall(US) == \E u \in US : validate_call(u)
SummaryCall(US) == \E u \in US : summary_call(u)
ItemsCall(US) == \E u \in US : items_call(u)
CountCall(US) == \E u \in US : count_call(u)
UpdateStockCall(DS) == \E p \in Products, d \in DS : update_stock(p, d)
SetActiveCall == \E p \in Products, b \in BOOLEAN : set_active(p, b)
CreateOrderCall(US, NS) ==
    \E u \in US, n \in NS, t \in Times : create_order_from_cart(u, n, t)
RegisterCall ==
    \E un \in UsernameArgs, em \in EmailArgs, pw \in PasswordArgs, sa \in Salts, t \in Times :
        register_user(un, em, pw, sa, t)
AuthenticateCall ==
    \E login \in UsernameArgs \cup EmailArgs, pw \in PasswordArgs, t \in Times :
        authenticate_user(login, pw, t)
GetUserCall == \E id \in UserIds : get_user_by_id(id)
UpdateProfileCall ==
    \E id \in UserIds, em \in EmailArgs \cup {NoEmail}, fn \in NameArgs \cup {NoName},
       t \in Times : update_user_profile(id, em, fn, t)
ChangePasswordCall ==
    \E id \in UserIds, cur \in PasswordArgs, new \in PasswordArgs, sa \in Salts, t \in Times :
        change_password(id, cur, new, sa, t)
CreateAdminCall == \E sa \in Salts, t \in Times : create_admin_user(sa, t)
GetOrderCall == \E o \in OrderIds, c \in Callers : get_order_by_id(o, c)
CancelCall == \E o \in OrderIds, c \in Callers, t \in Times : cancel_order(o, c, t)
UpdateStatusCall ==
    \E o \in OrderIds, st \in StatusArgs, ref \in RefArgs, t1 \in Times, t2 \in Times :
        update_order_status(o, st, ref, t1, t2)

\* Shopping, each call run to completion before the next one starts: cart
\* changes, checkout, cancellation and restocking
Next ==
    \/ AddCall({Shopper}, QtyArgs)
    \/ SetQuantityCall({Shopper}, QtyArgs)
    \/ CreateOrderCall({Shopper}, {1})
    \/ CancelCall
    \/ UpdateStockCall(StockChanges)

Spec == Init /\ [][Next]_vars

\* The cart and the catalogue, without orders
NextCart ==
    \/ AddCall(Users, QtyArgs)
    \/ RemoveCall(Users)
    \/ SetQuantityCall(Users, QtyArgs)
    \/ ClearCall(Users)
    \/ ValidateCall(Users)
    \/ UpdateStockCall(StockChanges)
    \/ SetActiveCall

SpecCart == Init /\ [][NextCart]_vars

\* Checkout of carts that products leave (deactivation, stock taken away)
NextCheckout ==
    \/ AddCall({Shopper}, QtyArgs)
    \/ CreateOrderCall({Shopper}, {1})
    \/ UpdateStockCall({0 - 1})
    \/ SetActiveCall

SpecCheckout == Init /\ [][NextCheckout]_vars

\* The life of an order
NextOrders ==
    \/ AddCall({Shopper}, {1})
    \/ CreateOrderCall({Shopper}, {1})
    \/ UpdateStatusCall
    \/ CancelCall

SpecOrders == Init /\ [][NextOrders]_vars

\* Checkout after checkout, by both users, with restocking in between
NextRepeat ==
    \/ AddCall(Users, {1})
    \/ CreateOrderCall(Users, OrderNumbers)
    \/ UpdateStockCall({1})

SpecRepeat == Init /\ [][NextRepeat]_vars

\* The cart summary over carts of products of several prices
NextSummary ==
    \/ AddCall({Shopper}, QtyArgs)
    \/ SummaryCall({Shopper})
    \/ UpdateStockCall({1})
    \/ SetActiveCall

SpecSummary == InitPrices /\ [][NextSummary]_vars

\* Orders of two users, looked up and cancelled by either, by no user, by id 0
NextOwnership ==
    \/ AddCall(Users, {1})
    \/ CreateOrderCall(Users, OrderNumbers)
    \/ GetOrderCall
    \/ CancelCall

SpecOwnership == Init /\ [][NextOwnership]_vars

\* The users table: registration, login, profile, password, the default admin
NextAuth ==
    \/ RegisterCall
    \/ AuthenticateCall
    \/ GetUserCall
    \/ UpdateProfileCall
    \/ ChangePasswordCall
    \/ CreateAdminCall

SpecAuth == Init /\ [][NextAuth]_vars

\* Calls with ids that no row has, with quantities of either sign and with
\* status strings outside the enum, next to one shopper's cart and order
NextMisuse ==
    \/ AddCall({Shopper}, QtyArgs)
    \/ \E q \in QtyArgs : add_to_cart(Shopper, AbsentProduct, q)
    \/ \E p \in Products, q \in QtyArgs : update_cart_item_quantity(AbsentUser, p, q)
    \/ \E q \in QtyArgs : update_cart_item_quantity(Shopper, AbsentProduct, q)
    \/ \E p \in Products \cup {AbsentProduct} : remove_from_cart(AbsentUser, p)
    \/ ClearCall({AbsentUser})
    \/ ValidateCall({AbsentUser})
    \/ SummaryCall({AbsentUser})
    \/ CreateOrderCall({Shopper}, {1})
    \/ \E o \in OrderIds, st \in StatusArgs \ valid_statuses, t \in Times :
          update_order_status(o, st, NoRef, t, t)
    \/ \E o \in OrderIds \ {1}, t \in Times : cancel_order(o, Shopper, t)
    \/ \E o \in OrderIds : get_order_by_id(o, Shopper)
    \/ \E sa \in Salts, t \in Times : register_user("alice", "alice@x.com", "pw1", sa, t)
    \/ \E t \in Times : authenticate_user("alice", "pw1", t)
    \/ GetUserCall
    \/ \E id \in UserIds, t \in Times : update_user_profile(id, "bob@x.com", NoName, t)
    \/ \E id \in UserIds, sa \in Salts, t \in Times :
          change_password(id, "pw1", "pw2", sa, t)

SpecMisuse == Init /\ [][NextMisuse]_vars

\* Checkouts of two users that run at the same time; a user adds to the cart
\* only while no checkout of that user is under way
NextRace ==
    \/ \E u \in Users, p \in Products : ckpt[u] = "idle" /\ add_to_cart(u, p, 1)
    \/ \E u \in Users : co_validate(u)
    \/ \E u \in Users : co_summary(u)
    \/ \E u \in Users, n \in OrderNumbers, t \in Times : co_flush(u, n, t)
    \/ \E u \in Users : co_loop(u)
    \/ \E u \in Users : co_commit(u)

SpecRace == Init /\ [][NextRace]_vars

\* Calls that open a session inside another, and calls that end in an
\* exception handler, with other calls in between
NextSessions ==
    \/ AddCall({Shopper}, {1})
    \/ SetQuantityCall({Shopper}, {0, 1})
    \/ \E u \in {Shopper} : co_validate(u)
    \/ \E u \in {Shopper} : co_summary(u)
    \/ \E u \in {Shopper}, n \in OrderNumbers, t \in Times : co_transaction(u, n, t)
    \/ UpdateStockCall({0 - 1})
    \/ \E sa \in Salts, t \in Times : register_user("alice", "alice@x.com", "pw1", sa, t)

SpecSessions == Init /\ [][NextSessions]_vars

\* Orders that stay while the shop goes on: the cart changes, further
\* checkouts, status updates and cancellations
NextKept ==
    \/ AddCall({Shopper}, {1})
    \/ SetQuantityCall({Shopper}, {0, 1})
    \/ CreateOrderCall({Shopper}, OrderNumbers)
    \/ \E o \in OrderIds, st \in {"pending", "shipped"}, t \in Times :
          update_order_status(o, st, "ref1", t, t)
    \/ \E o \in OrderIds, t \in Times : cancel_order(o, Shopper, t)

SpecKept == Init /\ [][NextKept]_vars

\* The cart as its owner sees it (list, summary, count) while products are
\* taken off the catalogue and put back
NextListing ==
    \/ AddCall({Shopper}, 1..MaxQty)
    \/ RemoveCall({Shopper})
    \/ ItemsCall({Shopper})
    \/ SummaryCall({Shopper})
    \/ CountCall({Shopper})
    \/ UpdateStockCall({1})
    \/ SetActiveCall

SpecListing == Init /\ [][NextListing]_vars

\* add_to_cart calls of one user that run at the same time
NextAdds ==
    \/ \E s \in Sessions, p \in Products, q \in 1..MaxQty : add_begin(s, Shopper, p, q)
    \/ \E s \in Sessions : add_commit(s)
    \/ UpdateStockCall({1})
    \/ SetActiveCall

SpecAdds == Init /\ [][NextAdds]_vars

\* Checkout with other calls between its sessions
NextInterleaved ==
    \/ AddCall({Shopper}, 1..MaxQty)
    \/ \E u \in {Shopper} : co_validate(u)
    \/ \E u \in {Shopper} : co_summary(u)
    \/ \E u \in {Shopper}, n \in OrderNumbers, t \in Times : co_transaction(u, n, t)
    \/ UpdateStockCall({0 - 1})
    \/ SetActiveCall

SpecInterleaved == Init /\ [][NextInterleaved]_vars

----------------------------------------------------------------------------
(* Claims *)

\* the step is the order transaction of u's create_order_from_cart
IsTransactionOf(u) == ckpt[u] = "summarised" /\ ckpt'[u] = "idle"

\* some cart line of u asks for more than the product's stock
SomeLineShort(u) ==
    \E i \in 1..Len(cart) :
        cart[i].user_id = u /\ stock[cart[i].product_id] < cart[i].quantity

\* C1: create_order_from_cart is all-or-nothing.  When a cart line of the user
\* fails the in-loop stock check, the call returns a failure and no product's
\* stock_quantity, no Order row and no cart row has changed, whatever earlier
\* lines of the loop had already decremented.
C1_AllOrNothing ==
    [][\A u \in Users :
          (IsTransactionOf(u) /\ SomeLineShort(u))
              => /\ stock' = stock
                 /\ orders' = orders
                 /\ cart' = cart
                 /\ last'.op = "createFromCart"
                 /\ ~last'.ok]_vars

\* C1 witness: the transaction has just failed on the second line of a cart
\* whose first line had passed the check and been decremented
C1_Witness ==
    /\ last.op = "createFromCart"
    /\ ~last.ok
    /\ \E u \in Users :
          LET rows == CartRowsOf(cart, u) IN
          /\ ckpt[u] = "idle"
          /\ Len(rows) = 2
          /\ rows[1].quantity > 0
          /\ stock[rows[1].product_id] >= rows[1].quantity
          /\ stock[rows[2].product_id] < rows[2].quantity
          /\ last.msg = InsufficientFor[rows[2].product_id]

\* C2: no product's stock_quantity is ever negative, whatever add,
\* setQuantity, createFromCart, cancel and update_stock calls ran one at a
\* time, with quantity arguments of either sign.
C2_StockNeverNegative == \A p \in Products : stock[p] >= 0

\* C2 witness: a checkout has just taken a product's last unit
C2_Witness ==
    /\ last.op = "createFromCart"
    /\ last.ok
    /\ \E p \in orders[last.order].products : stock[p] = 0

\* the quantity of u's cart row for p, 0 when there is none
RowQuantity(c, u, p) ==
    IF FirstRow(c, u, p) = 0 THEN 0 ELSE c[FirstRow(c, u, p)].quantity

\* C3: a successful createFromCart of user u leaves u without cart rows and
\* adds exactly one Order, owned by u, pending / pending with discount 0 and
\* with exactly the products of u's cart rows attached; each of those products
\* has lost exactly its row's quantity of stock, every other product none.
C3_SuccessfulCheckout ==
    [][(last'.op = "createFromCart" /\ last'.ok) =>
          \E u \in Users :
             LET o == orders'[Len(orders')] IN
             /\ CartRowsOf(cart', u) = <<>>
             /\ Len(orders') = Len(orders) + 1
             /\ \A i \in 1..Len(orders) : orders'[i] = orders[i]
             /\ o.user_id = u
             /\ o.status = "pending"
             /\ o.payment_status = "pending"
             /\ o.discount_amount = 0
             /\ o.products = {p \in Products : FirstRow(cart, u, p) # 0}
             /\ o.products # {}
             /\ \A p \in Products : stock'[p] = stock[p] - RowQuantity(cart, u, p)]_vars

\* C3 witness: a second order has just been created, by another user than the
\* first, and took both products
C3_Witness ==
    /\ last.op = "createFromCart"
    /\ last.ok
    /\ last.order = 2
    /\ Len(orders) = 2
    /\ orders[2].products = Products
    /\ orders[1].user_id # orders[2].user_id

\* the cart of u is one validate_cart_for_checkout reports invalid: empty, or
\* with a row whose product is inactive or whose quantity exceeds the stock
InvalidCart(u) ==
    \/ \A i \in 1..Len(cart) : cart[i].user_id # u
    \/ \E i \in 1..Len(cart) :
          /\ cart[i].user_id = u
          /\ \/ ~active[cart[i].product_id]
             \/ cart[i].quantity > stock[cart[i].product_id]

\* C4: createFromCart on an invalid cart returns success = false and changes
\* no order, no product's stock_quantity and no cart row.
C4_InvalidCartNoMutation ==
    [][\A u \in Users, n \in OrderNumbers, t \in Times :
          (create_order_from_cart(u, n, t) /\ InvalidCart(u))
              => /\ ~last'.ok
                 /\ orders' = orders
                 /\ stock' = stock
                 /\ cart' = cart]_vars

\* C4 witness: createFromCart has just refused a cart with a row of an
\* inactive product
C4_Witness ==
    /\ last.op = "createFromCart"
    /\ ~last.ok
    /\ last.msg = "Cart validation failed"
    /\ \E i \in 1..Len(cart) :
          /\ ~active[cart[i].product_id]
          /\ stock[cart[i].product_id] >= cart[i].quantity
          /\ cart[i].quantity > 0

\* the number of cart rows of the pair (u, p)
RowCount(c, u, p) ==
    Cardinality({i \in 1..Len(c) : c[i].user_id = u /\ c[i].product_id = p})

\* C5: a successful add(u, p, q) leaves exactly one cart row for (u, p): with
\* quantity q when there was none, and with the old quantity plus q when
\* there was one.  So two successful adds of q1 and q2 leave one row of
\* quantity q1 + q2.
C5_AddMergesBySum ==
    [][\A u \in Users, p \in Products, q \in QtyArgs :
          (add_to_cart(u, p, q) /\ last'.ok /\ RowCount(cart, u, p) <= 1)
              => /\ RowCount(cart', u, p) = 1
                 /\ RowQuantity(cart', u, p) = RowQuantity(cart, u, p) + q
                 /\ RowQuantity(cart', u, p) <= stock[p]]_vars

\* C5 witness: the only cart row holds more than a single add can put there,
\* and an add has just succeeded
C5_Witness ==
    /\ last.op = "add"
    /\ last.ok
    /\ Len(cart) = 1
    /\ cart[1].quantity > MaxQty

\* C6 as claimed: add(u, p, q) fails with "Insufficient stock" whenever the
\* quantity of the pair's cart row plus q exceeds the product's
\* stock_quantity, and the cart keeps its rows.
C6_AsClaimed ==
    [][\A u \in Users, p \in Products, q \in QtyArgs :
          (add_to_cart(u, p, q) /\ RowQuantity(cart, u, p) + q > stock[p])
              => /\ ~last'.ok
                 /\ last'.msg = "Insufficient stock"
                 /\ cart' = cart]_vars

\* C6 amended: for an active product p, add(u, p, q) fails with "Insufficient
\* stock" whenever the quantity of the pair's cart row plus q exceeds the
\* product's stock_quantity, and the cart keeps its rows.  (For an inactive
\* product the add fails too, with "Product not found".)
C6_InsufficientStock ==
    [][\A u \in Users, p \in Products, q \in QtyArgs :
          (add_to_cart(u, p, q) /\ active[p] /\ RowQuantity(cart, u, p) + q > stock[p])
              => /\ ~last'.ok
                 /\ last'.msg = "Insufficient stock"
                 /\ cart' = cart]_vars

\* C6 witness: an add has just failed for want of stock although every
\* product is active and has stock for the largest single request: the merged
\* quantity was the one too large
C6_Witness ==
    /\ last.op = "add"
    /\ ~last.ok
    /\ last.msg = "Insufficient stock"
    /\ \A p \in Products : active[p] /\ stock[p] >= MaxQty
    /\ \E i \in 1..Len(cart) : cart[i].quantity + 1 > stock[cart[i].product_id]

\* the call reaches order o: it exists, and the caller owns it or gives no user
Reaches(o, caller) ==
    /\ o \in 1..Len(orders)
    /\ caller = NoUser \/ orders[o].user_id = caller

\* C7: cancel on a shipped, delivered or cancelled order fails and changes
\* neither an order nor a product's stock_quantity; cancel on a pending,
\* confirmed or processing order succeeds and leaves it cancelled.
C7_CancelByStatus ==
    [][\A o \in OrderIds, c \in Callers, t \in Times :
          (cancel_order(o, c, t) /\ Reaches(o, c))
              => /\ orders[o].status \in {"shipped", "delivered", "cancelled"}
                     => (~last'.ok /\ orders' = orders /\ stock' = stock)
                 /\ orders[o].status \in {"pending", "confirmed", "processing"}
                     => (last'.ok /\ orders'[o].status = "cancelled")]_vars

\* C7 witness: cancel has just been refused for a shipped order
C7_Witness ==
    /\ last.op = "cancel"
    /\ ~last.ok
    /\ last.msg = "Order cannot be cancelled"
    /\ last.order \in 1..Len(orders)
    /\ orders[last.order].status = "shipped"

\* every order's status and payment_status is of its enum
StatusesInEnum ==
    \A i \in 1..Len(orders) :
        /\ orders[i].status \in
              {"pending", "confirmed", "processing", "shipped", "delivered", "cancelled"}
        /\ orders[i].payment_status \in {"pending", "paid", "failed", "refunded"}

\* updateStatus of an existing order with a status outside the enum answers
\* "Invalid status" and leaves every order as it was
InvalidStatusRefused ==
    \A o \in OrderIds, st \in StatusArgs, ref \in RefArgs, t1 \in Times, t2 \in Times :
        ( /\ update_order_status(o, st, ref, t1, t2)
          /\ o \in 1..Len(orders)
          /\ st \notin {"pending", "confirmed", "processing", "shipped", "delivered",
                        "cancelled"} )
            => /\ ~last'.ok
               /\ last'.msg = "Invalid status"
               /\ orders' = orders

\* C8: every order's status and payment_status stay within their enums, and
\* updateStatus with a status outside the enum returns "Invalid status" and
\* leaves the order (status, payment fields, timestamps) unchanged.
C8_StatusEnums == []StatusesInEnum /\ [][InvalidStatusRefused]_vars

\* C8 witness: updateStatus has just refused a status for an order that is
\* paid and shipped
C8_Witness ==
    /\ last.op = "updateStatus"
    /\ last.msg = "Invalid status"
    /\ last.order \in 1..Len(orders)
    /\ orders[last.order].payment_status = "paid"
    /\ orders[last.order].shipped_at # NullTime

\* C9 as claimed: once an order's status is "cancelled" it is "cancelled" in
\* every later state, whatever cancel and updateStatus calls follow.
C9_CancelledIsTerminal ==
    [][\A i \in 1..Len(orders) :
          orders[i].status = "cancelled" => orders'[i].status = "cancelled"]_vars

\* the rows of u that validate_cart_for_checkout must report
Offending(u) ==
    SelectSeq(CartRowsOf(cart, u),
              LAMBDA r : ~active[r.product_id] \/ stock[r.product_id] < r.quantity)

\* C10: validateForCheckout(u) returns valid exactly when u has a cart row
\* and every row's product is active with stock_quantity >= the row's
\* quantity; for a non-empty invalid cart the issues list has exactly one
\* entry per offending row, in row order; and the call changes no table.
C10_ValidateForCheckout ==
    [][\A u \in Users :
          validate_call(u)
              => /\ last'.ok <=> (CartRowsOf(cart, u) # <<>> /\ Offending(u) = <<>>)
                 /\ Len(last'.issues) = Len(Offending(u))
                 /\ \A k \in 1..Len(Offending(u)) :
                       last'.issues[k].product_id = Offending(u)[k].product_id
                 /\ UNCHANGED <<stock, active, price, cktx, adding, users, cart, orders>>]_vars

\* C10 witness: validateForCheckout has just reported two offending rows
C10_Witness ==
    /\ last.op = "validate"
    /\ ~last.ok
    /\ Len(last.issues) = 2
    /\ last.issues[1].kind # last.issues[2].kind

\* the price times quantity of u's rows for the products of S that are listed
\* (active), summed
RECURSIVE ListedValue(_, _)
ListedValue(u, S) ==
    IF S = {} THEN 0
    ELSE LET p == CHOOSE x \in S : TRUE
         IN  (IF active[p] THEN price[p] * RowQuantity(cart, u, p) ELSE 0)
                 + ListedValue(u, S \ {p})

\* C11: summary(u) over u's listed cart rows, in integer cents: subtotal is
\* the sum of price * quantity; shipping_amount is 0 exactly when subtotal >=
\* 10000 and 999 otherwise; total_amount = subtotal + tax_amount +
\* shipping_amount with tax_amount 8% of subtotal to the nearest cent;
\* free_shipping_eligible = (subtotal >= 10000); free_shipping_remaining =
\* max(0, 10000 - subtotal).  Subtotal 9500 gives 999 and 500, subtotal 12000
\* gives 0 and 0.
C11_SummaryArithmetic ==
    [][\A u \in Users :
          (summary_call(u) /\ \A p \in Products : RowCount(cart, u, p) <= 1)
              => LET s == last'.summary
                     tax8 == s.subtotal * 8
                 IN  /\ s.subtotal = ListedValue(u, Products)
                     /\ s.shipping_amount = 0 <=> s.subtotal >= 10000
                     /\ s.shipping_amount \in {0, 999}
                     /\ 100 * s.tax_amount - tax8 \in (0 - 49)..49
                     /\ s.total_amount = s.subtotal + s.tax_amount + s.shipping_amount
                     /\ s.free_shipping_eligible <=> s.subtotal >= 10000
                     /\ s.free_shipping_remaining =
                            (IF 10000 - s.subtotal > 0 THEN 10000 - s.subtotal ELSE 0)
                     /\ s.subtotal = 9500 =>
                            (s.shipping_amount = 999 /\ s.free_shipping_remaining = 500)
                     /\ s.subtotal = 12000 =>
                            (s.shipping_amount = 0 /\ s.free_shipping_remaining = 0)]_vars

\* C11 witness: the summary of a cart worth 95.00 (two units of one product)
\* has just been returned: tax 7.60, shipping 9.99, total 112.59, 5.00 short
\* of free shipping
C11_Witness ==
    /\ last.op = "summary"
    /\ last.summary.subtotal = 9500
    /\ last.summary.tax_amount = 760
    /\ last.summary.shipping_amount = 999
    /\ last.summary.total_amount = 11259
    /\ last.summary.free_shipping_remaining = 500
    /\ Len(last.summary.items) = 1
    /\ last.summary.items[1].quantity = 2

\* C12 as claimed: there is at most one cart row per (user, product) pair in
\* every reachable state, also when two add calls for the same user and
\* product run at the same time.
C12_OneRowPerPair == \A u \in Users, p \in Products : RowCount(cart, u, p) <= 1

\* C13 as claimed: every cart row has quantity >= 1 in every state that add,
\* setQuantity, remove and clear calls can reach, whatever integer quantity
\* they are given.
C13_QuantityAtLeastOne == \A i \in 1..Len(cart) : cart[i].quantity >= 1

\* all stored orders have pairwise distinct order numbers
OrderNumbersDistinct ==
    \A i, j \in 1..Len(orders) :
        orders[i].order_number = orders[j].order_number => i = j

\* createFromCart with a generated number that a stored order has fails and
\* leaves orders, stock and cart as they were
CollisionRefused ==
    \A u \in Users, n \in OrderNumbers, t \in Times :
        ( /\ last'.op = "createFromCart"
          /\ \E i \in 1..Len(orders) : orders[i].order_number = n
          /\ create_order_from_cart(u, n, t) )
            => /\ ~last'.ok
               /\ orders' = orders
               /\ stock' = stock
               /\ cart' = cart

\* C14: all orders have pairwise distinct order_number in every reachable
\* state; when the generator yields a number that a stored order already has,
\* createFromCart returns success = false and orders, stock and the user's
\* cart are unchanged.
C14_OrderNumberUnique ==
    OrderNumbersDistinct /\ [][OrderNumbersDistinct' /\ CollisionRefused]_vars

\* C14 witness: createFromCart has just failed at the INSERT of the order,
\* with a cart that is valid for checkout, because the one stored order has
\* the generated number
C14_Witness ==
    /\ last.op = "createFromCart"
    /\ ~last.ok
    /\ last.msg = "Order creation failed"
    /\ Len(orders) = 1
    /\ \E u \in Users : validate_cart_for_checkout(cart, stock, active, u).valid

\* C15 as claimed: with a user id supplied (anything but None), getOrderById
\* of an order owned by another user returns None, and cancel of it returns
\* "Order not found" and changes neither an order nor any stock; for every
\* user id value.
C15_OwnershipScoped ==
    [][\A o \in OrderIds, c \in Callers \ {NoUser}, t \in Times :
          (o \in 1..Len(orders) /\ orders[o].user_id # c)
              => /\ get_order_by_id(o, c) => ~last'.ok
                 /\ cancel_order(o, c, t)
                       => /\ ~last'.ok
                          /\ last'.msg = "Order not found"
                          /\ orders' = orders
                          /\ stock' = stock]_vars

\* no two stored users share a username or an email
UsersUnique ==
    \A i, j \in 1..Len(users) :
        (users[i].username = users[j].username \/ users[i].email = users[j].email)
            => i = j

\* C16 as claimed: register(username, email, password) succeeds exactly when
\* no stored user has that username or that email, and then adds one active,
\* non-admin user; otherwise it fails with a message that names the username
\* when the username matches and the email otherwise, and users is unchanged;
\* usernames and emails stay unique.
C16_RegisterExactlyWhenFree ==
    [][/\ UsersUnique'
       /\ \A un \in UsernameArgs, em \in EmailArgs, pw \in PasswordArgs,
             sa \in Salts, t \in Times :
             register_user(un, em, pw, sa, t)
                 => LET taken == \E i \in 1..Len(users) :
                                     users[i].username = un \/ users[i].email = em
                        byName == \E i \in 1..Len(users) : users[i].username = un
                    IN  /\ last'.ok <=> ~taken
                        /\ last'.ok =>
                              /\ Len(users') = Len(users) + 1
                              /\ users'[Len(users')].username = un
                              /\ users'[Len(users')].email = em
                              /\ users'[Len(users')].is_active
                              /\ ~users'[Len(users')].is_admin
                        /\ ~last'.ok =>
                              /\ users' = users
                              /\ last'.msg = IF byName THEN "Username already exists"
                                             ELSE "Email already registered"]_vars

\* C17: createAdminUser is idempotent.  When a user with is_admin true is
\* stored, the call answers "Admin user already exists", creates nothing and
\* leaves every user as it was; so however often it is called, at most one
\* user is an admin.
C17_CreateAdminIdempotent ==
    [][/\ Cardinality({i \in 1..Len(users') : users'[i].is_admin}) <= 1
       /\ \A sa \in Salts, t \in Times :
             (create_admin_user(sa, t) /\ \E i \in 1..Len(users) : users[i].is_admin)
                 => /\ users' = users
                    /\ ~last'.ok
                    /\ last'.msg = "Admin user already exists"]_vars

\* C17 witness: createAdminUser has just been refused while the one stored
\* user, the admin, has another email and password than it was created with
C17_Witness ==
    /\ last.op = "createAdmin"
    /\ ~last.ok
    /\ Len(users) = 1
    /\ users[1].is_admin
    /\ users[1].email # "admin@casio-watches.com"
    /\ ~VerifyPassword("admin123", users[1].hashed_password)

\* what the calls with an id that no row has, or with a status outside the
\* enum, return: a failure, None, or an empty listing, and no table changes
MisuseRefused ==
    /\ last'.op = "add" =>
          \A u \in {Shopper, AbsentUser}, q \in QtyArgs :
              add_to_cart(u, AbsentProduct, q) => (~last'.ok /\ cart' = cart)
    /\ last'.op \in {"setQuantity", "remove"} =>
          \A u \in {Shopper, AbsentUser}, p \in Products \cup {AbsentProduct}, q \in QtyArgs :
              ( /\ \A i \in 1..Len(cart) : ~(cart[i].user_id = u /\ cart[i].product_id = p)
                /\ update_cart_item_quantity(u, p, q) \/ remove_from_cart(u, p) )
                  => (~last'.ok /\ cart' = cart)
    /\ last'.op = "summary" =>
          \A u \in {Shopper, AbsentUser} :
              (summary_call(u) /\ \A i \in 1..Len(cart) : cart[i].user_id # u)
                  => last'.summary.items = <<>>
    /\ (last'.op \in {"updateStatus", "cancel"} /\ last'.order \notin 1..Len(orders))
          => (~last'.ok /\ orders' = orders /\ stock' = stock)
    /\ last'.op = "updateStatus" =>
          \A o \in OrderIds, st \in StatusArgs, ref \in RefArgs, t \in Times :
              ( /\ st \notin {"pending", "confirmed", "processing", "shipped", "delivered",
                               "cancelled"}
                /\ update_order_status(o, st, ref, t, t) )
                  => (~last'.ok /\ orders' = orders)
    /\ last'.op = "getOrderById" =>
          \A o \in OrderIds, c \in Callers :
              (o \notin 1..Len(orders) /\ get_order_by_id(o, c)) => ~last'.ok
    /\ (last'.op \in {"getUserById", "updateProfile", "changePassword"} /\ users = <<>>)
          => (~last'.ok /\ users' = users)

Raced(u) == \E p \in cktx[u].products : cktx[u].seen[p] # stock[p]

\* C20 as claimed: when two createFromCart calls of different users have both
\* passed validateForCheckout and the in-loop stock check on a product whose
\* stock covers each cart alone but not both, and both write their decrement,
\* the product's stock_quantity is left negative.
C20_AsClaimed ==
    [][\A u \in Users :
          (co_commit(u) /\ Raced(u)) => \E p \in cktx[u].products : stock'[p] < 0]_vars

\* C20 amended: in that race both calls succeed and both orders are stored,
\* but the later commit writes the value its own session computed from the
\* stock it had read: the product's stock_quantity ends at that value, which
\* is the stock read minus one cart's quantity and is not negative.  The
\* earlier decrement is lost, more units are sold than there were, and the
\* stock never goes below zero.
C20_LostUpdateNotNegative ==
    [][/\ \A p \in Products : stock'[p] >= 0
       /\ \A u \in Users :
             (co_commit(u) /\ Raced(u))
                 => /\ last'.ok
                    /\ Len(orders') = Len(orders) + 1
                    /\ \A p \in cktx[u].products :
                          /\ stock'[p] = cktx[u].seen[p] - RowQuantity(cart, u, p)
                          /\ stock'[p] >= 0]_vars

\* C20 witness: two orders of different users hold the same product, whose
\* one unit of stock each of their checkouts had read; the second commit has
\* just been made and the stock is 0
C20_Witness ==
    /\ last.op = "createFromCart"
    /\ last.ok
    /\ Len(orders) = 2
    /\ orders[1].user_id # orders[2].user_id
    /\ \E p \in orders[1].products \cap orders[2].products : stock[p] = 0
    /\ \A u \in Users : ckpt[u] = "idle"

\* the sessions of the calls that have not returned yet
SessionsUnderWay ==
    {<<"create_order_from_cart", u>> : u \in {v \in Users : ckpt[v] # "idle"}}
        \cup {<<"add_to_cart", s>> : s \in {x \in Sessions : adding[x].state = "read"}}

\* C19: every storage session opened during a service call is closed before
\* the call returns, on the success, the early-return and the exception path,
\* the sessions of the calls made inside another call's try block included
\* (setQuantity -> remove, createFromCart -> validateForCheckout and
\* summary): the only sessions open are those of calls still under way.  And
\* no uncommitted change survives a failure return: a step that ends in a
\* failure result leaves stock, cart rows, orders and users as they were.
C19_SessionsClosed ==
    [][/\ open' \subseteq SessionsUnderWay'
       /\ ~last'.ok => UNCHANGED <<stock, cart, orders, users>>]_vars

\* C19 witness: createFromCart has just returned from its exception handler
\* (the order's number was taken) after its calls of validateForCheckout and
\* summary, and no session is open
C19_Witness ==
    /\ last.op = "createFromCart"
    /\ ~last.ok
    /\ last.msg = "Order creation failed"
    /\ open = {}
    /\ \A u \in Users : ckpt[u] = "idle"
    /\ Len(orders) = 1
    /\ validate_cart_for_checkout(cart, stock, active, Shopper).valid

\* C21: a successful cancel increases stock_quantity by exactly 1 for each
\* distinct product attached to the order, whatever quantity the checkout
\* took, and leaves the stock of every other product unchanged.
C21_CancelRestoresOnePerProduct ==
    [][(last'.op = "cancel" /\ last'.ok)
          => /\ last'.order \in 1..Len(orders)
             /\ \A p \in Products :
                   stock'[p] = IF p \in orders[last'.order].products
                               THEN stock[p] + 1 ELSE stock[p]]_vars

\* C21 witness: the order took two units of p1 (its total is that of two,
\* 9800 + 784 tax + 999 shipping) and left none; its cancel has put one back
C21_Witness ==
    /\ last.op = "cancel"
    /\ last.ok
    /\ orders[last.order].products = {"p1"}
    /\ orders[last.order].total_amount = 11583
    /\ stock["p1"] = 1
    /\ stock["p2"] = InitStock

\* C22: updateStatus enforces no adjacency: for an existing order in any
\* current status and any target status of the enum, updateStatus succeeds
\* and sets the status to the target (pending to delivered directly, for one),
\* stamping shipped_at when the target is "shipped" and delivered_at when it
\* is "delivered".
C22_NoAdjacency ==
    [][(last'.op = "updateStatus" /\ last'.order \in 1..Len(orders))
          => \A st \in {"pending", "confirmed", "processing", "shipped",
                        "delivered", "cancelled"} :
                (~last'.ok \/ last'.msg = "Order status updated to " \o st)
                    => \A ref \in RefArgs, t1 \in Times, t2 \in Times :
                          update_order_status(last'.order, st, ref, t1, t2)
                              => /\ last'.ok
                                 /\ orders'[last'.order].status = st
                                 /\ st = "shipped"
                                       => orders'[last'.order].shipped_at = t2
                                 /\ st = "delivered"
                                       => orders'[last'.order].delivered_at = t2]_vars

\* C22 witness: an order has just been moved to "delivered" without ever
\* having been shipped
C22_Witness ==
    /\ last.op = "updateStatus"
    /\ last.ok
    /\ last.order \in 1..Len(orders)
    /\ orders[last.order].status = "delivered"
    /\ orders[last.order].delivered_at # NullTime
    /\ orders[last.order].shipped_at = NullTime

\* C23: after an Order is created, its order_number, user, total_amount,
\* tax_amount, shipping_amount, discount_amount and attached products are
\* never changed by a later operation (updateStatus, cancel, cart operations,
\* further checkouts), and no operation deletes an Order.
C23_OrderKept ==
    [][/\ Len(orders') >= Len(orders)
       /\ \A i \in 1..Len(orders) :
             /\ orders'[i].order_number = orders[i].order_number
             /\ orders'[i].user_id = orders[i].user_id
             /\ orders'[i].total_amount = orders[i].total_amount
             /\ orders'[i].tax_amount = orders[i].tax_amount
             /\ orders'[i].shipping_amount = orders[i].shipping_amount
             /\ orders'[i].discount_amount = orders[i].discount_amount
             /\ orders'[i].products = orders[i].products]_vars

\* C23 witness: the first order (one unit of p1: 4900 + 392 tax + 999
\* shipping) has been paid, cancelled and followed by a second checkout,
\* and the cart holds a row again
C23_Witness ==
    /\ Len(orders) = 2
    /\ orders[1].status = "cancelled"
    /\ orders[1].payment_status = "paid"
    /\ orders[1].products = {"p1"}
    /\ orders[1].total_amount = 6291
    /\ orders[1].discount_amount = 0
    /\ orders[2].order_number # orders[1].order_number
    /\ cart # <<>>

\* C24: setQuantity(user, product, q) with q <= 0 has the result and effect
\* of remove(user, product); with q > 0 and an existing row it overwrites the
\* row's quantity with q when the product's stock_quantity >= q (the total
\* stock, not the increment) and otherwise fails leaving the row unchanged;
\* with no existing row it fails and creates no row.
C24_SetQuantity ==
    [][last'.op = "setQuantity"
          => \A u \in Users, p \in Products, q \in QtyArgs :
                update_cart_item_quantity(u, p, q)
                    => LET i == FirstRow(cart, u, p) IN
                       /\ (q <= 0 /\ i # 0)
                             => /\ last'.ok
                                /\ last'.msg = "Item removed from cart"
                                /\ cart' = RemoveAt(cart, i)
                       /\ (q <= 0 /\ i = 0)
                             => /\ ~last'.ok
                                /\ last'.msg = "Item not found in cart"
                                /\ cart' = cart
                       /\ (q > 0 /\ i # 0 /\ stock[p] >= q)
                             => /\ last'.ok
                                /\ cart' = [cart EXCEPT ![i].quantity = q]
                       /\ (q > 0 /\ i # 0 /\ stock[p] < q)
                             => (~last'.ok /\ cart' = cart)
                       /\ (q > 0 /\ i = 0)
                             => (~last'.ok /\ cart' = cart)]_vars

\* C24 witness: setQuantity has just overwritten a row with a quantity equal
\* to the product's whole stock, next to another row of the same user
C24_Witness ==
    /\ last.op = "setQuantity"
    /\ last.ok
    /\ last.msg = "Cart updated"
    /\ Len(cart) = 2
    /\ \E i \in 1..Len(cart) :
          /\ cart[i].quantity = MaxQty
          /\ stock[cart[i].product_id] = MaxQty
    /\ \A i \in 1..Len(cart) : cart[i].user_id = Shopper

\* the rows of u whose product is active now, in row order
ActiveRows(u) == SelectSeq(CartRowsOf(cart, u), LAMBDA r : active[r.product_id])

\* C25: list(user) returns exactly the user's cart rows whose product is
\* active at the time of the call, and so does the items list of summary: a
\* row whose product was deactivated after being added is left out while the
\* row stays stored (neither the deactivation nor the listing changes the
\* cart), and it is listed again once the product is active again.
C25_ListExcludesInactive ==
    [][/\ last'.op \in {"list", "summary", "set_active"} => cart' = cart
       /\ \A u \in Users :
             /\ items_call(u)
                   => /\ Len(last'.items) = Len(ActiveRows(u))
                      /\ \A k \in 1..Len(ActiveRows(u)) :
                            /\ last'.items[k].product_id = ActiveRows(u)[k].product_id
                            /\ last'.items[k].quantity = ActiveRows(u)[k].quantity
             /\ summary_call(u)
                   => /\ Len(last'.summary.items) = Len(ActiveRows(u))
                      /\ \A k \in 1..Len(ActiveRows(u)) :
                            /\ last'.summary.items[k].product_id
                                  = ActiveRows(u)[k].product_id
                            /\ last'.summary.items[k].quantity
                                  = ActiveRows(u)[k].quantity]_vars

\* C25 witness: the list just returned leaves out the stored row of a
\* deactivated product and shows the other row
C25_Witness ==
    /\ last.op = "list"
    /\ Len(last.items) = 1
    /\ Len(CartRowsOf(cart, Shopper)) = 2
    /\ \E i \in 1..Len(cart) : ~active[cart[i].product_id]
    /\ active[last.items[1].product_id]

\* C28 as claimed: in every reachable state count(user) equals
\* summary(user).total_items, also when some of the user's cart rows
\* reference a product that has been deactivated.
C28_CountEqualsTotalItems ==
    \A u \in Users :
        get_cart_count(cart, u) = get_cart_summary(cart, active, u).total_items

\* C26 as claimed: stock is restored by cancellation at most once per order:
\* across any sequence of createFromCart, cancel and updateStatus calls (with
\* no update_stock) a product's stock_quantity never exceeds its initial
\* value.
C26_RestoredAtMostOnce ==
    \A p \in Products : stock[p] <= InitStock

\* C27: updateStatus changes no product's stock_quantity for any target
\* status, "cancelled" included: an order can reach status "cancelled"
\* through updateStatus with none of its stock restored, and only cancel
\* restores stock.
C27_UpdateStatusKeepsStock ==
    [][/\ last'.op = "updateStatus" => stock' = stock
       /\ (\E p \in Products : stock'[p] > stock[p])
             => (last'.op = "cancel" /\ last'.ok)]_vars

\* C27 witness: updateStatus has just set to "cancelled" a pending order that
\* took p1's only unit, and p1 is still out of stock
C27_Witness ==
    /\ last.op = "updateStatus"
    /\ last.ok
    /\ last.msg = "Order status updated to cancelled"
    /\ last.order \in 1..Len(orders)
    /\ orders[last.order].status = "cancelled"
    /\ orders[last.order].products = {"p1"}
    /\ stock["p1"] = 0

\* the orders that took units of product p; each took at least one
OrdersOf(p) == {i \in 1..Len(orders) : p \in orders[i].products}

\* C29 as claimed: under any interleaving of createFromCart calls (no cancel,
\* no update_stock) the cart quantities converted into committed orders for a
\* product never exceed the product's initial stock_quantity: no more orders
\* hold a product than it had units.
C29_NoOversell ==
    \A p \in Products : Cardinality(OrdersOf(p)) <= InitStock

\* C30 as claimed: the total_amount, tax_amount and shipping_amount of every
\* Order created by createFromCart equal the summary computed over exactly
\* the cart rows that were decremented and attached to that order (the rows
\* the order transaction read), also when an add, setQuantity, remove or
\* deactivation for the same user comes between the summary read and the
\* cart-row read of the order transaction.
C30_AmountsOfTakenRows ==
    [][Len(orders') = Len(orders) + 1
          => LET order == orders'[Len(orders')]
                 taken == get_cart_summary(cart, [p \in Products |-> TRUE],
                                           order.user_id)
             IN  /\ order.total_amount = taken.total_amount
                 /\ order.tax_amount = taken.tax_amount
                 /\ order.shipping_amount = taken.shipping_amount]_vars
====
